---- MODULE Spec2Model ----
(***************************************************************************)
(* Soteria topic authorization: the topic Manager (classification and the  *)
(* self-topic check), Template (render and per-audience access) and the    *)
(* authenticator's ACL entry point.                                        *)
(*                                                                         *)
(* A Go string is modelled as a sequence of tokens: "/" is the separator   *)
(* token strings.Split cuts on, every other token is an indivisible word.  *)
(* A text/template is a sequence of elements, each a literal token or a    *)
(* {{.field}} action.                                                      *)
(***************************************************************************)
EXTENDS Integers, Sequences, FiniteSets, TLC

VARIABLES manager, allowed, pc, args, ret, callers

vars == <<manager, allowed, pc, args, ret, callers>>

---------------------------------------------------------------------------
(* Bounds of the model. *)

\* every token sequence up to this length is a topic input
MaxTopicLen == 2

\* the requests the broker has in flight at once
NumCallers == 2

---------------------------------------------------------------------------
(* Go strings. *)

Sep == "/"

RECURSIVE Flatten(_)
Flatten(ss) == IF ss = <<>> THEN <<>> ELSE Head(ss) \o Flatten(Tail(ss))

HasPrefix(s, p) == Len(p) <= Len(s) /\ SubSeq(s, 1, Len(p)) = p

\* strings.TrimPrefix
TrimPrefix(s, p) == IF HasPrefix(s, p) THEN SubSeq(s, Len(p) + 1, Len(s)) ELSE s

\* strings.Split(s, "/"): one more segment than there are separators
RECURSIVE SplitFrom(_, _, _, _)
SplitFrom(s, i, cur, acc) ==
    IF i > Len(s) THEN Append(acc, cur)
    ELSE IF s[i] = Sep THEN SplitFrom(s, i + 1, <<>>, Append(acc, cur))
    ELSE SplitFrom(s, i + 1, Append(cur, s[i]), acc)

Split(s) == SplitFrom(s, 1, <<>>, <<>>)

---------------------------------------------------------------------------
(* Constants of package topics. *)

CabEvent == "cab_event"
DriverLocation == "driver_location"
SuperappEvent == "superapp_event"
SharedLocation == "shared_location"
GeneralCallEntry == "general_call_entry"
NodeCallEntry == "node_call_entry"
Chat == "chat"

Driver == "driver"
Passenger == "passenger"

\* HashType
HashID == "HashID"
MD5 == "MD5"

\* acl.AccessType; Unset is the zero value a missing map entry reads as
Unset == "Unset"
Sub == "Sub"
Pub == "Pub"
PubSub == "PubSub"
AccessTypes == {Unset, Sub, Pub, PubSub}

\* user.Issuer
IssDriver == "0"
IssPassenger == "1"
IssThirdParty == "100"

---------------------------------------------------------------------------
(* text/template over a map[string]string. *)

Lit(tok) == [kind |-> "lit", v |-> tok]
Field(name) == [kind |-> "field", v |-> name]
\* {{.name.x}}: a field of a string value, which Execute cannot evaluate
Chain(name) == [kind |-> "chain", v |-> name]

NoValue == "<no value>"

\* one element executed against the data map
ExecElem(e, fields) ==
    IF e.kind = "lit" THEN <<e.v>>
    ELSE IF e.v \in DOMAIN fields THEN fields[e.v]
    ELSE <<NoValue>>

ExecFails(tmpl, fields) == \E i \in 1..Len(tmpl) : tmpl[i].kind = "chain"

Execute(tmpl, fields) == Flatten([i \in 1..Len(tmpl) |-> ExecElem(tmpl[i], fields)])

\* Template.Parse: "" when Execute returns an error
Parse(t, fields) ==
    IF ExecFails(t.Template, fields) THEN <<>> ELSE Execute(t.Template, fields)

\* a mutated HasAccess: a declared Pub or Sub grants every request
HasAccessAnyDeclared(t, audience, accessType) ==
    LET access == IF audience \in DOMAIN t.Accesses THEN t.Accesses[audience] ELSE Unset
    IN  access # Unset \/ access = accessType

\* Template.HasAccess
HasAccess(t, audience, accessType) ==
    LET access == IF audience \in DOMAIN t.Accesses THEN t.Accesses[audience] ELSE Unset
    IN  access = PubSub \/ access = accessType

---------------------------------------------------------------------------
(* Collaborators outside the repository: snappids and crypto/md5. *)

DriverAudience == "DriverAudience"
PassengerAudience == "PassengerAudience"
NoAudience == "-1"

\* HashIDSManager.DecodeHashID: audience-scoped, injective where it succeeds
DecodeHashID(sub, audience) ==
    CASE audience = DriverAudience /\ sub = <<"h1">> -> [err |-> FALSE, id |-> 1]
      [] audience = DriverAudience /\ sub = <<"h2">> -> [err |-> FALSE, id |-> 2]
      [] audience = PassengerAudience /\ sub = <<"h1">> -> [err |-> FALSE, id |-> 2]
      [] OTHER -> [err |-> TRUE, id |-> 0]

\* fmt.Sprintf("%x", md5.Sum("emqch-" + strconv.Itoa(id))): collision free
Md5Hex(id) == IF id = 1 THEN <<"m1">> ELSE IF id = 2 THEN <<"m2">> ELSE <<"m0">>

---------------------------------------------------------------------------
(* Topic definitions and the Manager. *)

Alphabet ==
    {Sep, "snapp", Driver, Passenger, "h1", "h2", "m1", "m2",
     "ev", "loc", "news", "call", "send", "n1"}

Words == Alphabet \ {Sep}

C == Field("company")
AUD == Field("audience")
PEER == Field("peer")
HID == Field("hashId")
NODE == Field("node")
S == Lit(Sep)

Topic(type, template, hashType, accesses) ==
    [Type |-> type, Template |-> template, HashType |-> hashType, Accesses |-> accesses]

\* a deployment with one family per shape
TopicListA ==
    << Topic(CabEvent, <<C, S, AUD, S, HID, S, Lit("ev")>>, MD5,
             (IssDriver :> Sub) @@ (IssPassenger :> Sub)),
       Topic(DriverLocation, <<C, S, AUD, S, HID, S, Lit("loc")>>, HashID,
             (IssDriver :> Pub)),
       Topic(NodeCallEntry, <<C, S, AUD, S, HID, S, Lit("call"), S, NODE, S, Lit("send")>>,
             HashID, (IssDriver :> PubSub) @@ (IssPassenger :> PubSub)) >>

\* a deployment with overlapping families, a family without an identity
\* token and a node_call_entry family of three segments
TopicListB ==
    << Topic(SharedLocation, <<C, S, AUD, S, HID, S, Lit("loc")>>, HashID,
             (IssDriver :> Sub) @@ (IssPassenger :> PubSub)),
       Topic(DriverLocation, <<C, S, Lit(Driver), S, HID, S, Lit("loc")>>, HashID,
             (IssDriver :> Pub)),
       Topic(SuperappEvent, <<C, S, AUD, S, Lit("news")>>, HashID,
             (IssDriver :> Sub) @@ (IssPassenger :> Sub)),
       Topic(NodeCallEntry, <<C, S, HID, S, NODE>>, HashID,
             (IssDriver :> PubSub) @@ (IssPassenger :> Pub)),
       Topic(CabEvent, <<C, S, PEER, S, HID, S, Lit("ev")>>, MD5,
             (IssPassenger :> Sub)) >>

\* a deployment whose declared hash types differ from the ones of the type
\* names, with a family whose template cannot be executed
TopicListC ==
    << Topic(GeneralCallEntry, <<C, S, AUD, S, HID, S, Lit("call")>>, MD5,
             (IssDriver :> PubSub) @@ (IssPassenger :> PubSub)),
       Topic(CabEvent, <<C, S, AUD, S, HID, S, Lit("ev")>>, HashID,
             (IssDriver :> Sub) @@ (IssPassenger :> Sub)),
       Topic(Chat, <<C, Chain("hashId")>>, HashID,
             (IssDriver :> PubSub) @@ (IssPassenger :> PubSub)) >>

TopicLists == {TopicListA, TopicListB, TopicListC}

Company == <<"snapp">>

\* NewTopicManager
NewTopicManager(topicList, company) ==
    [Company |-> company,
     TopicTemplates |->
        [i \in 1..Len(topicList) |->
            [Type |-> topicList[i].Type,
             Template |-> topicList[i].Template,
             HashType |-> topicList[i].HashType,
             Accesses |-> topicList[i].Accesses]]]

\* the values a field may take for the family's matcher to recognise it
FieldClass(name) ==
    IF name \in {"audience", "peer"} THEN {Driver, Passenger} ELSE Words

ElemAccepts(e, tok) ==
    IF e.kind = "lit" THEN tok = e.v ELSE tok \in FieldClass(e.v)

\* the family's pattern: the template without its leading company field;
\* an action that cannot be executed renders nothing and has no token in it
Pattern(tmpl) ==
    LET body == IF tmpl # <<>> /\ Head(tmpl) = C THEN Tail(tmpl) ELSE tmpl
    IN  SelectSeq(body, LAMBDA e : e.kind # "chain")

\* Template.Regex.MatchString on the topic without the company prefix
MatchString(t, topic) ==
    LET p == Pattern(t.Template)
    IN  /\ Len(topic) = Len(p)
        /\ \A i \in 1..Len(p) : ElemAccepts(p[i], topic[i])

\* a mutated scan: the last match wins
RECURSIVE LastMatchFrom(_, _, _)
LastMatchFrom(templates, topic, i) ==
    IF i < 1 THEN 0
    ELSE IF MatchString(templates[i], topic) THEN i
    ELSE LastMatchFrom(templates, topic, i - 1)

GetTopicTypeLastMatch(m, input) ==
    LET topic == TrimPrefix(input, m.Company)
        i == LastMatchFrom(m.TopicTemplates, topic, Len(m.TopicTemplates))
    IN  IF i = 0 THEN "" ELSE m.TopicTemplates[i].Type

\* a mutated GetTopicType: the company prefix is left on the topic
GetTopicTypeNoTrim(m, input) ==
    LET i == LastMatchFrom(m.TopicTemplates, input, Len(m.TopicTemplates))
    IN  IF i = 0 THEN "" ELSE m.TopicTemplates[i].Type

\* the range loop of GetTopicTemplate: the index returned, 0 for (nil, false)
RECURSIVE TemplateScan(_, _, _)
TemplateScan(templates, topic, i) ==
    IF i > Len(templates) THEN 0
    ELSE IF MatchString(templates[i], topic) THEN i
    ELSE TemplateScan(templates, topic, i + 1)

\* Manager.GetTopicTemplate
GetTopicTemplate(m, input) ==
    LET topic == TrimPrefix(input, m.Company)
        i == TemplateScan(m.TopicTemplates, topic, 1)
    IN  [ok |-> i # 0, index |-> i]

\* the range loop of GetTopicType
RECURSIVE TypeScan(_, _, _)
TypeScan(templates, topic, i) ==
    IF i > Len(templates) THEN ""
    ELSE IF MatchString(templates[i], topic) THEN templates[i].Type
    ELSE TypeScan(templates, topic, i + 1)

\* Manager.GetTopicType
GetTopicType(m, input) ==
    LET topic == TrimPrefix(input, m.Company)
    IN  TypeScan(m.TopicTemplates, topic, 1)

\* a mutated IsTopicValid: the company prefix is left on the topic
IsTopicValidUntrimmed(m, topic) == TypeScan(m.TopicTemplates, topic, 1) # ""

\* Manager.IsTopicValid
IsTopicValid(m, topic) == GetTopicType(m, topic) # ""

issuerToAudience(issuer) ==
    CASE issuer = IssPassenger -> PassengerAudience
      [] issuer = IssDriver -> DriverAudience
      [] OTHER -> NoAudience

issuerToAudienceStr(issuer) ==
    CASE issuer = IssPassenger -> <<Passenger>>
      [] issuer = IssDriver -> <<Driver>>
      [] OTHER -> <<>>

peerOfAudience(audience) ==
    CASE audience = <<Driver>> -> <<Passenger>>
      [] audience = <<Passenger>> -> <<Driver>>
      [] OTHER -> <<>>

\* a mutated getHashID: the token does not depend on the subject
getHashIDFixed(topicType, sub, issuer) ==
    IF topicType = CabEvent THEN [err |-> FALSE, hashID |-> <<"m1">>]
    ELSE [err |-> FALSE, hashID |-> <<"h1">>]

\* Manager.getHashID
getHashID(topicType, sub, issuer) ==
    IF topicType = CabEvent
    THEN LET d == DecodeHashID(sub, issuerToAudience(issuer))
         IN  IF d.err THEN [err |-> TRUE, hashID |-> <<>>]
             ELSE [err |-> FALSE, hashID |-> Md5Hex(d.id)]
    ELSE [err |-> FALSE, hashID |-> sub]

\* a mutated field map: the peer is the sender's own audience
SenderFieldsPeerIsAudience(m, topicTemplate, topic, issuer, hashID) ==
    LET audience == issuerToAudienceStr(issuer)
        base == [audience |-> audience, company |-> m.Company,
                 peer |-> audience, hashId |-> hashID]
    IN  IF topicTemplate.Type = NodeCallEntry
        THEN base @@ ("node" :> Split(topic)[5])
        ELSE base

\* the field map ValidateTopicBySender renders with
SenderFields(m, topicTemplate, topic, issuer, hashID) ==
    LET audience == issuerToAudienceStr(issuer)
        base == [audience |-> audience, company |-> m.Company,
                 peer |-> peerOfAudience(audience), hashId |-> hashID]
    IN  IF topicTemplate.Type = NodeCallEntry
        THEN base @@ ("node" :> Split(topic)[5])
        ELSE base

\* a mutated self-topic check: a recognised topic is taken as the sender's own
ValidateTopicBySenderNoCompare(m, topic, issuer, sub) ==
    [panic |-> FALSE, ok |-> GetTopicTemplate(m, topic).ok]

\* Manager.ValidateTopicBySender; panic: the index expression is out of range
ValidateTopicBySender(m, topic, issuer, sub) ==
    LET found == GetTopicTemplate(m, topic)
    IN  IF ~found.ok THEN [panic |-> FALSE, ok |-> FALSE]
        ELSE LET topicTemplate == m.TopicTemplates[found.index]
                 h == getHashID(topicTemplate.Type, sub, issuer)
             IN  IF h.err THEN [panic |-> FALSE, ok |-> FALSE]
                 ELSE IF topicTemplate.Type = NodeCallEntry /\ Len(Split(topic)) < 5
                 THEN [panic |-> TRUE, ok |-> FALSE]
                 ELSE LET fields == SenderFields(m, topicTemplate, topic, issuer, h.hashID)
                          parsedTopic == Parse(topicTemplate, fields)
                      IN  [panic |-> FALSE, ok |-> parsedTopic = topic]

---------------------------------------------------------------------------
(* The authenticator. *)

\* a JWT claim as ParseUnverified leaves it in the MapClaims
NilClaim == [kind |-> "nil"]
NumberClaim == [kind |-> "number"]
StringClaim(v) == [kind |-> "string", v |-> v]

Token(malformed, iss, sub) == [malformed |-> malformed, iss |-> iss, sub |-> sub]

NoError == [kind |-> "nil"]
ErrInvalidAccessType == [kind |-> "ErrInvalidAccessType"]
ErrInvalidClaims == [kind |-> "ErrInvalidClaims"]
ErrIssNotFound == [kind |-> "ErrIssNotFound"]
ErrSubNotFound == [kind |-> "ErrSubNotFound"]
InvalidTopicError(topic) == [kind |-> "InvalidTopicError", Topic |-> topic]
TopicNotAllowedError(issuer, sub, accessType, topic, topicType) ==
    [kind |-> "TopicNotAllowedError", Issuer |-> issuer, Sub |-> sub,
     AccessType |-> accessType, Topic |-> topic, TopicType |-> topicType]

\* a mutated allow-list check: listing Pub and Sub admits PubSub
RECURSIVE Listed(_, _, _)
Listed(list, accessType, i) ==
    IF i > Len(list) THEN FALSE
    ELSE IF list[i] = accessType THEN TRUE
    ELSE Listed(list, accessType, i + 1)

ValidateAccessTypeCombining(list, accessType) ==
    \/ Listed(list, accessType, 1)
    \/ accessType = PubSub /\ Listed(list, Pub, 1) /\ Listed(list, Sub, 1)

\* AutoAuthenticator.ValidateAccessType
RECURSIVE ValidateAccessTypeFrom(_, _, _)
ValidateAccessTypeFrom(list, accessType, i) ==
    IF i > Len(list) THEN FALSE
    ELSE IF list[i] = accessType THEN TRUE
    ELSE ValidateAccessTypeFrom(list, accessType, i + 1)

ValidateAccessType(list, accessType) == ValidateAccessTypeFrom(list, accessType, 1)

\* Manager.ParseTopic: the family looked up for the topic, provided the
\* self-topic check passes for the caller; 0 for nil. A topic too short for
\* the positional field is a deny.
ParseTopic(m, topic, issuer, sub) ==
    LET found == GetTopicTemplate(m, topic)
        self == ValidateTopicBySender(m, topic, issuer, sub)
    IN  IF found.ok /\ ~self.panic /\ self.ok THEN found.index ELSE 0

\* fmt.Sprintf("%v", claims[IssName])
IssuerOf(claim) == claim.v

\* sub, _ := claims[SubName].(string)
SubOf(claim) == IF claim.kind = "string" THEN claim.v ELSE <<>>

\* a mutated claims check: the subject is looked at before the issuer
ACLClaimsSubFirst(m, accessType, token, topic) ==
    IF token.malformed THEN [ok |-> FALSE, err |-> ErrInvalidClaims]
    ELSE IF token.sub.kind = "nil" THEN [ok |-> FALSE, err |-> ErrSubNotFound]
    ELSE IF token.iss.kind = "nil" THEN [ok |-> FALSE, err |-> ErrIssNotFound]
    ELSE LET issuer == IssuerOf(token.iss)
             sub == SubOf(token.sub)
             i == ParseTopic(m, topic, issuer, sub)
         IN  IF i = 0 THEN [ok |-> FALSE, err |-> InvalidTopicError(topic)]
             ELSE IF ~HasAccess(m.TopicTemplates[i], issuer, accessType)
             THEN [ok |-> FALSE,
                   err |-> TopicNotAllowedError(issuer, sub, accessType, topic,
                                                m.TopicTemplates[i].Type)]
             ELSE [ok |-> TRUE, err |-> NoError]

\* AutoAuthenticator.ACL once the access type is admitted
ACLClaims(m, accessType, token, topic) ==
    IF token.malformed THEN [ok |-> FALSE, err |-> ErrInvalidClaims]
    ELSE IF token.iss.kind = "nil" THEN [ok |-> FALSE, err |-> ErrIssNotFound]
    ELSE IF token.sub.kind = "nil" THEN [ok |-> FALSE, err |-> ErrSubNotFound]
    ELSE LET issuer == IssuerOf(token.iss)
             sub == SubOf(token.sub)
             i == ParseTopic(m, topic, issuer, sub)
         IN  IF i = 0 THEN [ok |-> FALSE, err |-> InvalidTopicError(topic)]
             ELSE IF ~HasAccess(m.TopicTemplates[i], issuer, accessType)
             THEN [ok |-> FALSE,
                   err |-> TopicNotAllowedError(issuer, sub, accessType, topic,
                                                m.TopicTemplates[i].Type)]
             ELSE [ok |-> TRUE, err |-> NoError]

\* a mutated ACL: the token is parsed before the access type is looked at
ACLParseFirst(m, list, accessType, token, topic) ==
    IF token.malformed THEN [ok |-> FALSE, err |-> ErrInvalidClaims]
    ELSE IF ~ValidateAccessType(list, accessType)
    THEN [ok |-> FALSE, err |-> ErrInvalidAccessType]
    ELSE ACLClaims(m, accessType, token, topic)

\* AutoAuthenticator.ACL
ACL(m, list, accessType, token, topic) ==
    IF ~ValidateAccessType(list, accessType)
    THEN [ok |-> FALSE, err |-> ErrInvalidAccessType]
    ELSE ACLClaims(m, accessType, token, topic)

---------------------------------------------------------------------------
(* Inputs. *)

\* the allow-lists of the deployments
AllowedLists == {<<>>, <<Pub>>, <<Pub, Sub>>, <<Pub, Sub, PubSub>>}

Issuers == {IssDriver, IssPassenger, IssThirdParty}

\* subject strings: two that decode, one that does not, and the empty string
Subs == {<<"h1">>, <<"h2">>, <<"m1">>, <<>>}

Tokens ==
    {Token(TRUE, NilClaim, NilClaim)}
    \cup {Token(FALSE, iss, sub) :
            iss \in {NilClaim} \cup {StringClaim(i) : i \in Issuers},
            sub \in {NilClaim, NumberClaim} \cup {StringClaim(s) : s \in Subs \ {<<>>}}}

Templates == UNION {{tl[i] : i \in 1..Len(tl)} : tl \in TopicLists}

\* the field maps a topic string is built from
InputFields ==
    {[audience |-> a, company |-> c, peer |-> peerOfAudience(a), hashId |-> h, node |-> <<"n1">>] :
        a \in {<<Driver>>, <<Passenger>>, <<>>},
        c \in {Company, <<>>},
        h \in {<<"h1">>, <<"h2">>, <<"m1">>, <<"m2">>}}

\* field maps of valid values, as handed to Template.Parse
RenderFields ==
    {[audience |-> <<a>>, company |-> c, peer |-> <<p>>, hashId |-> <<h>>, node |-> <<n>>] :
        a \in {Driver, Passenger}, c \in {Company, <<>>}, p \in {Driver, Passenger},
        h \in {"h1", "m2"}, n \in {"n1", "send"}}

Prefixes(s) == {SubSeq(s, 1, n) : n \in 0..Len(s)}

ShapedTopics == UNION {Prefixes(Execute(t.Template, f)) : t \in Templates, f \in InputFields}

RECURSIVE Strings(_)
Strings(n) ==
    IF n = 0 THEN {<<>>}
    ELSE LET shorter == Strings(n - 1)
         IN  shorter \cup {Append(s, a) : s \in {x \in shorter : Len(x) = n - 1}, a \in Alphabet}

TopicInputs == ShapedTopics \cup Strings(MaxTopicLen)

---------------------------------------------------------------------------
(* The state machine: a deployment is constructed, then requests are served *)
(* one call at a time.                                                      *)

Callers == 1..NumCallers

\* a goroutine of the broker with no request in hand
IdleCaller == [pc |-> "idle", op |-> "", args |-> <<>>, topic |-> <<>>, i |-> 0,
               each |-> <<>>, ret |-> <<>>]

Init ==
    /\ manager \in {NewTopicManager(tl, Company) : tl \in TopicLists}
    /\ allowed \in AllowedLists
    /\ pc = "idle"
    /\ args = <<>>
    /\ ret = <<>>
    /\ callers = [c \in Callers |-> IdleCaller]

Call(op, a, r) ==
    /\ pc' = op
    /\ args' = a
    /\ ret' = r
    /\ UNCHANGED <<manager, allowed, callers>>

CallACL ==
    /\ pc = "idle"
    /\ \E accessType \in AccessTypes, token \in Tokens, topic \in TopicInputs :
        Call("ACL", [accessType |-> accessType, token |-> token, topic |-> topic],
             ACL(manager, allowed, accessType, token, topic))

CallValidateAccessType ==
    /\ pc = "idle"
    /\ \E accessType \in AccessTypes :
        Call("ValidateAccessType", [accessType |-> accessType],
             ValidateAccessType(allowed, accessType))

CallHasAccess ==
    /\ pc = "idle"
    /\ \E i \in 1..Len(manager.TopicTemplates), audience \in Issuers \cup {Driver},
       accessType \in AccessTypes :
        Call("HasAccess", [index |-> i, audience |-> audience, accessType |-> accessType],
             HasAccess(manager.TopicTemplates[i], audience, accessType))

CallValidateTopicBySender ==
    /\ pc = "idle"
    /\ \E topic \in TopicInputs, issuer \in Issuers, sub \in Subs :
        Call("ValidateTopicBySender", [topic |-> topic, issuer |-> issuer, sub |-> sub],
             ValidateTopicBySender(manager, topic, issuer, sub))

CallGetTopicTemplate ==
    /\ pc = "idle"
    /\ \E topic \in TopicInputs :
        Call("GetTopicTemplate", [topic |-> topic], GetTopicTemplate(manager, topic))

CallGetTopicType ==
    /\ pc = "idle"
    /\ \E topic \in TopicInputs :
        Call("GetTopicType", [topic |-> topic], GetTopicType(manager, topic))

CallIsTopicValid ==
    /\ pc = "idle"
    /\ \E topic \in TopicInputs :
        Call("IsTopicValid", [topic |-> topic], IsTopicValid(manager, topic))

CallGetHashID ==
    /\ pc = "idle"
    /\ \E i \in 1..Len(manager.TopicTemplates), sub \in Subs, issuer \in Issuers :
        Call("getHashID", [index |-> i, sub |-> sub, issuer |-> issuer],
             getHashID(manager.TopicTemplates[i].Type, sub, issuer))

CallParse ==
    /\ pc = "idle"
    /\ \E i \in 1..Len(manager.TopicTemplates), fields \in RenderFields :
        Call("Parse", [index |-> i, fields |-> fields],
             Parse(manager.TopicTemplates[i], fields))

\* the rendered string is handed to the classifier
ClassifyRendered ==
    /\ pc = "Parse"
    /\ pc' = "ParseThenGetTopicType"
    /\ args' = args
    /\ ret' = [rendered |-> ret, type |-> GetTopicType(manager, ret),
               valid |-> IsTopicValid(manager, ret)]
    /\ UNCHANGED <<manager, allowed, callers>>

\* the call returns to its caller
Return ==
    /\ pc # "idle"
    /\ pc' = "idle"
    /\ args' = <<>>
    /\ ret' = <<>>
    /\ UNCHANGED <<manager, allowed, callers>>

Next ==
    \/ CallACL
    \/ CallValidateAccessType
    \/ CallHasAccess
    \/ CallValidateTopicBySender
    \/ CallGetTopicTemplate
    \/ CallGetTopicType
    \/ CallIsTopicValid
    \/ CallGetHashID
    \/ CallParse
    \/ ClassifyRendered
    \/ Return

Spec == Init /\ [][Next]_vars

---------------------------------------------------------------------------
(* Concurrent callers: one goroutine per inbound request, all on the same   *)
(* Manager. A call is a sequence of steps, one per iteration of the range   *)
(* loop, and the steps of different callers interleave.                     *)

\* a mutated loop body: the family visited is moved to the front of the list
TopicTemplatesMoveToFront(templates, i) ==
    [j \in 1..Len(templates) |->
        IF j = 1 THEN templates[i]
        ELSE IF j <= i THEN templates[j - 1]
        ELSE templates[j]]

\* t.TopicTemplates after one iteration of "for _, each := range
\* t.TopicTemplates": the body calls each.Regex.MatchString on a copy of the
\* element and assigns nothing
TopicTemplatesAfterRange(templates, i) == templates

\* ValidateTopicBySender after the lookup, on the copy the lookup returned
ValidateTopicBySenderWith(m, each, topic, issuer, sub) ==
    LET h == getHashID(each.Type, sub, issuer)
    IN  IF h.err THEN [panic |-> FALSE, ok |-> FALSE]
        ELSE IF each.Type = NodeCallEntry /\ Len(Split(topic)) < 5
        THEN [panic |-> TRUE, ok |-> FALSE]
        ELSE [panic |-> FALSE,
              ok |-> Parse(each, SenderFields(m, each, topic, issuer, h.hashID)) = topic]

\* ACL before the topic is looked up: the error it returns, NoError to go on
ACLBeforeLookup(list, accessType, token) ==
    IF ~ValidateAccessType(list, accessType) THEN ErrInvalidAccessType
    ELSE IF token.malformed THEN ErrInvalidClaims
    ELSE IF token.iss.kind = "nil" THEN ErrIssNotFound
    ELSE IF token.sub.kind = "nil" THEN ErrSubNotFound
    ELSE NoError

\* ACL after the lookup, on the copy the lookup returned (found: i # 0)
ACLAfterLookup(m, i, each, accessType, token, topic) ==
    LET issuer == IssuerOf(token.iss)
        sub == SubOf(token.sub)
        self == IF i = 0 THEN [panic |-> FALSE, ok |-> FALSE]
                ELSE ValidateTopicBySenderWith(m, each, topic, issuer, sub)
    IN  IF self.panic \/ ~self.ok THEN [ok |-> FALSE, err |-> InvalidTopicError(topic)]
        ELSE IF ~HasAccess(each, issuer, accessType)
        THEN [ok |-> FALSE,
              err |-> TopicNotAllowedError(issuer, sub, accessType, topic, each.Type)]
        ELSE [ok |-> TRUE, err |-> NoError]

\* the result of a call whose lookup ended at index i (0: no family) with
\* the copy each
ResultAfterLookup(m, op, a, i, each) ==
    CASE op = "GetTopicType" -> IF i = 0 THEN "" ELSE each.Type
      [] op = "IsTopicValid" -> (IF i = 0 THEN "" ELSE each.Type) # ""
      [] op = "GetTopicTemplate" -> [ok |-> i # 0, index |-> i]
      [] op = "ValidateTopicBySender" ->
            IF i = 0 THEN [panic |-> FALSE, ok |-> FALSE]
            ELSE ValidateTopicBySenderWith(m, each, a.topic, a.issuer, a.sub)
      [] op = "ACL" -> ACLAfterLookup(m, i, each, a.accessType, a.token, a.topic)

\* the topics of the concurrent requests: a cab_event topic, a location
\* topic and the empty string; each is found at a different index, or not at
\* all, depending on the deployment
EventTopic == <<"snapp", Sep, Passenger, Sep, "h1", Sep, "ev">>
LocationTopic == <<"snapp", Sep, Driver, Sep, "h1", Sep, "loc">>

DriverToken == Token(FALSE, StringClaim(IssDriver), StringClaim(<<"h1">>))

\* the calls a caller may make
ConcurrentCalls ==
    {[op |-> "GetTopicType", args |-> [topic |-> topic]] :
        topic \in {LocationTopic, <<>>}}
    \cup {[op |-> "IsTopicValid", args |-> [topic |-> LocationTopic]],
          [op |-> "GetTopicTemplate", args |-> [topic |-> EventTopic]]}
    \cup {[op |-> "ValidateTopicBySender",
           args |-> [topic |-> call[1], issuer |-> call[2], sub |-> <<"h1">>]] :
            call \in {<<EventTopic, IssPassenger>>, <<LocationTopic, IssDriver>>}}
    \cup {[op |-> "ACL", args |-> [accessType |-> call[1], token |-> call[2], topic |-> call[3]]] :
            call \in {<<Sub, Token(TRUE, NilClaim, NilClaim), EventTopic>>,
                      <<Pub, DriverToken, LocationTopic>>,
                      <<PubSub, DriverToken, LocationTopic>>}}
    \cup {[op |-> "HasAccess", args |-> [index |-> 1, audience |-> call[1],
                                         accessType |-> call[2]]] :
            call \in {<<IssDriver, Sub>>, <<IssThirdParty, Pub>>}}
    \cup {[op |-> "ValidateAccessType", args |-> [accessType |-> accessType]] :
            accessType \in {Pub, PubSub}}

\* a caller receives a request and runs the call up to its range loop; a
\* call without a loop runs to its return
BeginCall(c) ==
    /\ callers[c].pc = "idle"
    /\ \E call \in ConcurrentCalls :
        LET started == [callers[c] EXCEPT !.op = call.op, !.args = call.args]
            before == ACLBeforeLookup(allowed, call.args.accessType, call.args.token)
        IN  callers' = [callers EXCEPT ![c] =
                CASE call.op = "HasAccess" ->
                        [started EXCEPT !.pc = "done",
                            !.ret = HasAccess(manager.TopicTemplates[call.args.index],
                                              call.args.audience, call.args.accessType)]
                  [] call.op = "ValidateAccessType" ->
                        [started EXCEPT !.pc = "done",
                            !.ret = ValidateAccessType(allowed, call.args.accessType)]
                  [] call.op = "ACL" /\ before # NoError ->
                        [started EXCEPT !.pc = "done", !.ret = [ok |-> FALSE, err |-> before]]
                  [] OTHER ->
                        [started EXCEPT !.pc = "range", !.i = 1,
                            !.topic = TrimPrefix(call.args.topic, manager.Company)]]
    /\ UNCHANGED <<manager, allowed, pc, args, ret>>

\* one iteration of the range loop of the lookup
RangeStep(c) ==
    /\ callers[c].pc = "range"
    /\ LET i == callers[c].i
           each == manager.TopicTemplates[i]
       IN  /\ callers' = [callers EXCEPT ![c] =
                    IF MatchString(each, callers[c].topic)
                    THEN [@ EXCEPT !.pc = "found", !.each = each]
                    ELSE IF i < Len(manager.TopicTemplates)
                    THEN [@ EXCEPT !.i = i + 1]
                    ELSE [@ EXCEPT !.pc = "found", !.i = 0]]
           /\ manager' = [manager EXCEPT
                            !.TopicTemplates = TopicTemplatesAfterRange(@, i)]
    /\ UNCHANGED <<allowed, pc, args, ret>>

\* the rest of the call after the lookup
FinishCall(c) ==
    /\ callers[c].pc = "found"
    /\ LET me == callers[c]
       IN  callers' = [callers EXCEPT ![c] =
                [me EXCEPT !.pc = "done",
                    !.ret = ResultAfterLookup(manager, me.op, me.args, me.i, me.each)]]
    /\ UNCHANGED <<manager, allowed, pc, args, ret>>

\* the caller hands the result to the broker
ReturnCall(c) ==
    /\ callers[c].pc = "done"
    /\ callers' = [callers EXCEPT ![c] = IdleCaller]
    /\ UNCHANGED <<manager, allowed, pc, args, ret>>

NextConcurrent ==
    \/ \E c \in Callers : BeginCall(c)
    \/ \E c \in Callers : RangeStep(c)
    \/ \E c \in Callers : FinishCall(c)
    \/ \E c \in Callers : ReturnCall(c)

SpecConcurrent == Init /\ [][NextConcurrent]_vars

---------------------------------------------------------------------------
(* Properties. *)

\* the family GetTopicTemplate finds for the topic of the current call
Matched == manager.TopicTemplates[GetTopicTemplate(manager, args.topic).index]

Elems(tmpl) == {tmpl[i] : i \in 1..Len(tmpl)}

InList(list, x) == \E i \in 1..Len(list) : list[i] = x

\* the topic has the segment the family's positional field is taken from
LongEnough(t, topic) == t.Type = NodeCallEntry => Len(Split(topic)) >= 5

C2_HasAccessIffDeclared ==
    (pc = "HasAccess" /\ args.audience \in DOMAIN manager.TopicTemplates[args.index].Accesses) =>
        LET declared == manager.TopicTemplates[args.index].Accesses[args.audience]
        IN  /\ ret = (declared = PubSub \/ declared = args.accessType)
            /\ (declared = PubSub /\ args.accessType \in {Pub, Sub}) => ret
            /\ (declared = Pub /\ args.accessType = Sub) => ~ret
            /\ (declared = Sub /\ args.accessType = Pub) => ~ret
            /\ (args.accessType = PubSub /\ ret) => declared = PubSub

\* C2 witness: a declared Pub has denied a Sub request.
C2_Witness ==
    /\ pc = "HasAccess"
    /\ args.audience \in DOMAIN manager.TopicTemplates[args.index].Accesses
    /\ manager.TopicTemplates[args.index].Accesses[args.audience] = Pub
    /\ args.accessType = Sub
    /\ ret = FALSE

\* C3: for an audience without an entry in Accesses, HasAccess is false for
\* every requested access type, the zero value included.
C3_AbsenceDenies ==
    (pc = "HasAccess" /\ args.audience \notin DOMAIN manager.TopicTemplates[args.index].Accesses) =>
        ret = FALSE

\* C4 as claimed: when the self-topic check passes for one subject, it fails
\* for every other subject of the same issuer, whatever the family's template.
C4_AntiSpoofingAnyTemplate ==
    (pc = "ValidateTopicBySender" /\ ret.ok) =>
        \A other \in Subs \ {args.sub} :
            ValidateTopicBySender(manager, args.topic, args.issuer, other)
                = [panic |-> FALSE, ok |-> FALSE]

\* C4: when the self-topic check passes for one subject on a topic whose
\* family renders the identity token, it fails for every other subject of
\* the same issuer.
C4_AntiSpoofing ==
    (pc = "ValidateTopicBySender" /\ ret.ok /\ HID \in Elems(Matched.Template)) =>
        \A other \in Subs \ {args.sub} :
            ValidateTopicBySender(manager, args.topic, args.issuer, other)
                = [panic |-> FALSE, ok |-> FALSE]

\* C4 witness: the self-topic check has passed on a topic of the family whose
\* identity token is the hash of the decoded subject.
C4_Witness ==
    /\ pc = "ValidateTopicBySender"
    /\ ret.ok
    /\ Matched.Type = CabEvent
    /\ HID \in Elems(Matched.Template)

\* C5: an access type that is not in the allow-list is denied with
\* ErrInvalidAccessType whatever the token and the topic are.
C5_InvalidAccessTypeFirst ==
    (pc = "ACL" /\ ~InList(allowed, args.accessType)) =>
        ret = [ok |-> FALSE, err |-> ErrInvalidAccessType]

\* C5 witness: the access type was not allowed and the token was malformed too.
C5_Witness ==
    /\ pc = "ACL"
    /\ ~InList(allowed, args.accessType)
    /\ allowed # <<>>
    /\ args.token.malformed
    /\ ret.err = ErrInvalidAccessType

\* the deny reasons C6 lists, in its order, for the current ACL call
C6_Listed ==
    LET issuer == IssuerOf(args.token.iss)
        sub == SubOf(args.token.sub)
        i == ParseTopic(manager, args.topic, issuer, sub)
    IN  IF args.token.iss.kind = "nil" THEN [ok |-> FALSE, err |-> ErrIssNotFound]
        ELSE IF args.token.sub.kind = "nil" THEN [ok |-> FALSE, err |-> ErrSubNotFound]
        ELSE IF i = 0 THEN [ok |-> FALSE, err |-> InvalidTopicError(args.topic)]
        ELSE IF ~HasAccess(manager.TopicTemplates[i], issuer, args.accessType)
        THEN [ok |-> FALSE,
              err |-> TopicNotAllowedError(issuer, sub, args.accessType, args.topic,
                                           manager.TopicTemplates[i].Type)]
        ELSE [ok |-> TRUE, err |-> NoError]

C7_ValidateAccessTypeIsMembership ==
    pc = "ValidateAccessType" =>
        /\ ret = InList(allowed, args.accessType)
        /\ allowed = <<>> => ~ret
        /\ (args.accessType = PubSub /\ ret) => InList(allowed, PubSub)

\* C7 witness: Pub and Sub are listed and PubSub was rejected.
C7_Witness ==
    /\ pc = "ValidateAccessType"
    /\ allowed = <<Pub, Sub>>
    /\ args.accessType = PubSub
    /\ ret = FALSE

\* C8: on a topic of the node_call_entry family with fewer than five
\* segments the self-topic check returns false.
C8_ShortTopicDenied ==
    (/\ pc = "ValidateTopicBySender"
     /\ GetTopicTemplate(manager, args.topic).ok
     /\ Matched.Type = NodeCallEntry
     /\ Len(Split(args.topic)) < 5)
    => ret = [panic |-> FALSE, ok |-> FALSE]

\* the families whose matcher accepts the topic once the company prefix is cut
Accepting(topic) ==
    {i \in 1..Len(manager.TopicTemplates) :
        MatchString(manager.TopicTemplates[i], TrimPrefix(topic, manager.Company))}

Earliest(is) == CHOOSE i \in is : \A j \in is : i <= j

\* C9: GetTopicType and GetTopicTemplate return the earliest declared family
\* whose matcher accepts the topic without its company prefix, and not-found
\* only when no family accepts it.
C9_FirstMatchWins ==
    /\ pc = "GetTopicType" =>
          ret = IF Accepting(args.topic) = {} THEN ""
                ELSE manager.TopicTemplates[Earliest(Accepting(args.topic))].Type
    /\ pc = "GetTopicTemplate" =>
          ret = IF Accepting(args.topic) = {} THEN [ok |-> FALSE, index |-> 0]
                ELSE [ok |-> TRUE, index |-> Earliest(Accepting(args.topic))]

\* C9 witness: two families accept the topic and the earlier one was returned.
C9_Witness ==
    /\ pc = "GetTopicType"
    /\ Cardinality(Accepting(args.topic)) >= 2
    /\ HasPrefix(args.topic, manager.Company)
    /\ ret = manager.TopicTemplates[Earliest(Accepting(args.topic))].Type

\* C10 as claimed: classifying the string rendered from a family gives that
\* family's type.
C10_RoundTripOwnType ==
    pc = "ParseThenGetTopicType" =>
        /\ ret.type = manager.TopicTemplates[args.index].Type
        /\ ret.valid

\* C10: classifying the string rendered from a family with valid field values
\* gives the type of the earliest declared family whose matcher accepts it,
\* which is the family itself when no earlier one accepts it; the string is
\* recognised as valid.
C10_RoundTripFirstMatch ==
    pc = "ParseThenGetTopicType" =>
        /\ args.index \in Accepting(ret.rendered)
        /\ ret.type = manager.TopicTemplates[Earliest(Accepting(ret.rendered))].Type
        /\ (\A j \in 1..(args.index - 1) : j \notin Accepting(ret.rendered))
              => ret.type = manager.TopicTemplates[args.index].Type
        /\ ret.valid

\* C10 witness: a rendered string of a later family was classified as an
\* earlier one.
C10_Witness ==
    /\ pc = "ParseThenGetTopicType"
    /\ Earliest(Accepting(ret.rendered)) < args.index
    /\ ret.type # manager.TopicTemplates[args.index].Type

\* the audience of an issuer and the complementary role
C11_Audience(issuer) ==
    IF issuer = IssDriver THEN <<Driver>>
    ELSE IF issuer = IssPassenger THEN <<Passenger>> ELSE <<>>

C11_Peer(issuer) ==
    IF issuer = IssDriver THEN <<Passenger>>
    ELSE IF issuer = IssPassenger THEN <<Driver>> ELSE <<>>

\* the string the family renders for the sender of the current call
C11_Rendered(t, token) ==
    LET base == [company |-> manager.Company, audience |-> C11_Audience(args.issuer),
                 peer |-> C11_Peer(args.issuer), hashId |-> token]
    IN  Parse(t, IF t.Type = NodeCallEntry
                 THEN base @@ ("node" :> Split(args.topic)[5])
                 ELSE base)

\* C11: ValidateTopicBySender returns true exactly when a family classifies
\* the topic, the identity token can be derived from the subject and the
\* string rendered from the family with company, audience, peer, identity
\* token and extras equals the topic; it returns false when no family
\* matches or the subject cannot be decoded.
C11_TrueIffRenderedEqualsTopic ==
    pc = "ValidateTopicBySender" =>
        LET found == GetTopicTemplate(manager, args.topic)
            h == getHashID(Matched.Type, args.sub, args.issuer)
        IN  /\ ret.ok = (/\ found.ok
                         /\ ~h.err
                         /\ LongEnough(Matched, args.topic)
                         /\ C11_Rendered(Matched, h.hashID) = args.topic)
            /\ (~found.ok \/ h.err) => ret = [panic |-> FALSE, ok |-> FALSE]

\* C11 witness: a passenger's check has passed on a topic that carries the
\* peer role and the hash of its decoded subject.
C11_Witness ==
    /\ pc = "ValidateTopicBySender"
    /\ ret.ok
    /\ args.issuer = IssPassenger
    /\ PEER \in Elems(Matched.Template)
    /\ Matched.Type = CabEvent

\* C13: the identity token is selected by the family's declared HashType:
\* MD5 gives the hash of the decoded subject, HashID the subject itself,
\* whatever the family's Type is.
C13_TokenByHashType ==
    pc = "getHashID" =>
        LET t == manager.TopicTemplates[args.index]
            d == DecodeHashID(args.sub, issuerToAudience(args.issuer))
        IN  IF t.HashType = MD5
            THEN ret = IF d.err THEN [err |-> TRUE, hashID |-> <<>>]
                       ELSE [err |-> FALSE, hashID |-> Md5Hex(d.id)]
            ELSE ret = [err |-> FALSE, hashID |-> args.sub]

C15_FailedRenderDenied ==
    /\ pc = "Parse" =>
          (ExecFails(manager.TopicTemplates[args.index].Template, args.fields) => ret = <<>>)
    /\ pc = "ValidateTopicBySender" =>
          LET found == GetTopicTemplate(manager, args.topic)
              h == getHashID(Matched.Type, args.sub, args.issuer)
          IN  (/\ found.ok
               /\ ~h.err
               /\ ExecFails(Matched.Template,
                            SenderFields(manager, Matched, args.topic, args.issuer, h.hashID)))
              => ret.ok = FALSE

\* the result of the same call run alone on the Manager and the allow-list
ResultAlone(op, a) ==
    CASE op = "GetTopicType" -> GetTopicType(manager, a.topic)
      [] op = "IsTopicValid" -> IsTopicValid(manager, a.topic)
      [] op = "GetTopicTemplate" -> GetTopicTemplate(manager, a.topic)
      [] op = "ValidateTopicBySender" ->
            ValidateTopicBySender(manager, a.topic, a.issuer, a.sub)
      [] op = "ACL" -> ACL(manager, allowed, a.accessType, a.token, a.topic)
      [] op = "HasAccess" ->
            HasAccess(manager.TopicTemplates[a.index], a.audience, a.accessType)
      [] op = "ValidateAccessType" -> ValidateAccessType(allowed, a.accessType)

C12_ResultAsAlone ==
    \A c \in Callers :
        callers[c].pc = "done" => callers[c].ret = ResultAlone(callers[c].op, callers[c].args)

C12_SharedStateKept ==
    /\ manager' = manager
    /\ allowed' = allowed
    /\ \A c \in Callers :
          callers[c].pc \in {"range", "found"} /\ callers'[c].pc # "idle" =>
              /\ callers'[c].op = callers[c].op
              /\ callers'[c].args = callers[c].args

\* C12: under every interleaving of the steps of concurrent callers no step
\* changes the Manager, a Template or the allow-list, and the result a call
\* returns is the result of the same call run alone on the same inputs.
C12_NoCallMutatesSharedState == [](C12_ResultAsAlone) /\ [][C12_SharedStateKept]_vars

\* C12 witness: one caller has an accepted self-topic check in hand while
\* another is in the second iteration of the lookup of its ACL call.
C12_Witness ==
    /\ callers[1].pc = "done"
    /\ callers[1].op = "ValidateTopicBySender"
    /\ callers[1].ret.ok
    /\ callers[2].pc = "range"
    /\ callers[2].op = "ACL"
    /\ callers[2].i = 2

====
